---- MODULE Spec2Model ----
(***************************************************************************)
(* Model of the in-memory song queue server of src/index.js: the current   *)
(* song slot, the ordered queue with its position numbers, the id counter, *)
(* the set of SSE subscribers, and the HTTP handlers that change them.     *)
(*                                                                         *)
(* Conventions for JavaScript values:                                      *)
(*   - a nullable value is a sequence of length at most one: <<>> is null, *)
(*     <<v>> is the value v (currentSong, songId, the snapshot's next);    *)
(*   - a request body is a record; a field the client left out is a field  *)
(*     the record does not have (JavaScript's undefined);                  *)
(*   - Node runs each handler to completion on one thread, so each handler *)
(*     is one atomic action.                                               *)
(***************************************************************************)
EXTENDS Integers, Sequences, FiniteSets, TLC

VARIABLES
    currentSong,        \* src/index.js:18  null or {songId, title, artist}
    queue,              \* src/index.js:22  array of {id, songId, title, artist, position}
    nextQueueItemId,    \* src/index.js:25  id counter
    sseClients,         \* src/index.js:28  Set of the open stream responses
    writes,             \* per connection: what the server wrote to it, in order,
                        \* each with whether res.write returned or threw
    req,                \* the request handled last (route and inputs)
    res,                \* the response to it (status and JSON body)
    handled             \* number of requests handled (bounded runs only)

store == <<currentSong, queue, nextQueueItemId>>
vars == <<currentSong, queue, nextQueueItemId, sseClients, writes, req, res, handled>>

(***************************************************************************)
(* Bounds of the model.                                                    *)
(***************************************************************************)
MaxQueue == 3           \* Add is explored while the queue is shorter than this
MaxId == MaxQueue       \* Add is explored while the id counter is at most this
MaxConns == 2           \* stream connections over a run
MaxRequests == 4        \* requests per run of the bounded specification

Conns == 1..MaxConns

(***************************************************************************)
(* Inputs.                                                                 *)
(***************************************************************************)
Null == <<>>
Some(v) == <<v>>

AdminKey == "secret"                    \* process.env.ADMIN_KEY
HeaderKeys == {"secret", "wrong"}       \* the x-admin-key header

\* Bodies of POST /api/queue/add: two valid, the others miss title or artist.
AddBodies ==
    { [songId |-> 7, title |-> "A", artist |-> "X"],
      [title |-> "B", artist |-> "Y"],
      [songId |-> 7, title |-> "", artist |-> "X"],
      [title |-> "A", artist |-> ""],
      [songId |-> 7, artist |-> "X"],
      [title |-> "A"] }

\* Bodies of POST /api/queue/current.
CurrentBodies ==
    { [title |-> "B", artist |-> "Y"],
      [title |-> "", artist |-> "Y"],
      [songId |-> 7, title |-> "B"] }

\* The :id path parameter of DELETE /api/queue/:id, as text.
IdParams == { [digits |-> n] : n \in 1..MaxId } \cup { [text |-> "abc"] }

\* Positions and ids a Reorder request may carry: a list of at most two
\* {id, position} pairs; the second pair may repeat the id of the first.
PosVals == {0, 1, 2, 3}
ReorderIds == {1, 2}
ReorderPairs == [id : ReorderIds, position : PosVals]
ReorderLists ==
    {<<>>} \cup { <<p>> : p \in ReorderPairs }
           \cup { <<p, q>> : p \in { r \in ReorderPairs : r.id = 1 }, q \in ReorderPairs }
\* Bodies of POST /api/queue/reorder: items is an array, or it is not.
ReorderBodies ==
    { [items |-> [array |-> l]] : l \in ReorderLists }
        \cup { [items |-> [text |-> "1,2"]], [other |-> 0] }

(***************************************************************************)
(* JavaScript helpers.                                                     *)
(***************************************************************************)
\* !v that takes only undefined for falsy, the empty string for truthy.
FalsyAbsentOnly(body, f) == f \notin DOMAIN body

\* !v for a body field: undefined (absent) and "" are falsy.
Falsy(body, f) == f \notin DOMAIN body \/ body[f] = ""

\* v ?? null
OrNull(body, f) == IF f \in DOMAIN body THEN Some(body[f]) ELSE Null

\* Number(text): the number the text denotes, or NaN, which equals nothing.
\* The result is the set of numbers it is strictly equal to.
Number(p) == IF "digits" \in DOMAIN p THEN {p.digits} ELSE {}

\* Array.isArray(body.items)
IsArray(body) == "items" \in DOMAIN body /\ "array" \in DOMAIN body.items

\* array.findIndex(item => item.id === id); 0 stands for JavaScript's -1
\* (indices are 1-based here).
FindIndex(q, ids) ==
    IF \E i \in 1..Len(q) : q[i].id \in ids
    THEN CHOOSE i \in 1..Len(q) :
            /\ q[i].id \in ids
            /\ \A j \in 1..(i - 1) : q[j].id \notin ids
    ELSE 0

\* array.splice(index, 1)
Splice(q, index) == [i \in 1..(Len(q) - 1) |-> IF i < index THEN q[i] ELSE q[i + 1]]

\* Renumber without the renumbering: the items keep the positions they had.
RenumberKeepsPositions(q) == q

\* queue.map((item, index) => ({...item, position: index + 1})); index is
\* 0-based in the source, 1-based here.
Renumber(q) == [i \in 1..Len(q) |-> [q[i] EXCEPT !.position = i]]

\* posMap: for (const it of items) posMap.set(Number(it.id), Number(it.position));
\* a later pair overwrites an earlier one with the same id.
RECURSIVE PosMap(_)
PosMap(items) ==
    IF items = <<>> THEN [i \in {} |-> 0]
    ELSE LET n == Len(items)
             rest == PosMap(SubSeq(items, 1, n - 1))
             it == items[n]
         IN [i \in DOMAIN rest \cup {it.id} |->
                IF i = it.id THEN it.position ELSE rest[i]]

\* ApplyPositions looking the position up by array index, not by item id.
ApplyPositionsByIndex(q, posMap) ==
    [i \in 1..Len(q) |->
        IF i \in DOMAIN posMap
        THEN [q[i] EXCEPT !.position = posMap[i]]
        ELSE q[i]]

\* queue.map(item => ({...item, position: posMap.get(item.id) ?? item.position}))
ApplyPositions(q, posMap) ==
    [i \in 1..Len(q) |->
        IF q[i].id \in DOMAIN posMap
        THEN [q[i] EXCEPT !.position = posMap[q[i].id]]
        ELSE q[i]]

\* InsertByPosition moving an element past equal ones too (an unstable sort).
RECURSIVE InsertByPositionPastEqual(_, _)
InsertByPositionPastEqual(sorted, item) ==
    IF sorted = <<>> THEN <<item>>
    ELSE LET n == Len(sorted) IN
         IF sorted[n].position - item.position >= 0
         THEN Append(InsertByPositionPastEqual(SubSeq(sorted, 1, n - 1), item), sorted[n])
         ELSE Append(sorted, item)

\* queue.sort((a, b) => a.position - b.position): Array.prototype.sort is
\* stable; an insertion sort that moves an element only past strictly larger ones.
RECURSIVE InsertByPosition(_, _)
InsertByPosition(sorted, item) ==
    IF sorted = <<>> THEN <<item>>
    ELSE LET n == Len(sorted) IN
         IF sorted[n].position - item.position > 0
         THEN Append(InsertByPosition(SubSeq(sorted, 1, n - 1), item), sorted[n])
         ELSE Append(sorted, item)

\* SortByPosition without the sort: the array order is left as it was.
SortByPositionSkipped(q) == q

RECURSIVE SortByPosition(_)
SortByPosition(q) ==
    IF q = <<>> THEN <<>>
    ELSE LET n == Len(q) IN
         InsertByPosition(SortByPosition(SubSeq(q, 1, n - 1)), q[n])

(***************************************************************************)
(* Snapshot and broadcast.                                                 *)
(***************************************************************************)
\* getQueueSnapshot taking next from the wrong end of the array.
getQueueSnapshotLast(cs, q) ==
    [current |-> cs,
     next |-> IF Len(q) > 0 THEN Some(q[Len(q)]) ELSE Null,
     queue |-> q]

\* getQueueSnapshot() over the store values cs (currentSong) and q (queue).
getQueueSnapshot(cs, q) ==
    [current |-> cs,
     next |-> IF Len(q) > 0 THEN Some(q[1]) ELSE Null,
     queue |-> q]

\* `data: ${JSON.stringify(snapshot)}\n\n`.  The snapshots of this model hold
\* only strings, integers, null, arrays and plain objects, on which
\* JSON.stringify loses nothing, so the event carries the value it encodes.
DataEvent(snapshot) == [event |-> "data", json |-> snapshot]

\* "retry: 5000\n\n"
RetryEvent == [event |-> "retry", ms |-> 5000]

\* res.write(payload) on connection c: returns (ok) or throws.
Write(log, payload, ok) == Append(log, [payload |-> payload, ok |-> ok])

\* broadcastQueue without the try/catch around res.write: the first write that
\* throws ends the loop (sseClients iterates in insertion order, which is the
\* order of the connection numbers).
broadcastQueueNoCatch(cs, q, thrown) ==
    IF Cardinality(sseClients) = 0
    THEN writes
    ELSE LET payload == DataEvent(getQueueSnapshot(cs, q)) IN
         [c \in Conns |->
            IF c \in sseClients /\ \A d \in thrown : c <= d
            THEN Write(writes[c], payload, c \notin thrown)
            ELSE writes[c]]

\* broadcastQueue sending the snapshot of the store as the handler found it.
broadcastQueueStale(cs, q, thrown) ==
    IF Cardinality(sseClients) = 0
    THEN writes
    ELSE LET payload == DataEvent(getQueueSnapshot(currentSong, queue)) IN
         [c \in Conns |->
            IF c \in sseClients
            THEN Write(writes[c], payload, c \notin thrown)
            ELSE writes[c]]

\* broadcastQueue that writes nothing when the handler left the store as it
\* found it.
broadcastQueueOnChange(cs, q, thrown) ==
    IF Cardinality(sseClients) = 0 \/ (cs = currentSong /\ q = queue)
    THEN writes
    ELSE LET payload == DataEvent(getQueueSnapshot(cs, q)) IN
         [c \in Conns |->
            IF c \in sseClients
            THEN Write(writes[c], payload, c \notin thrown)
            ELSE writes[c]]

\* broadcastQueue() once the store holds cs and q; thrown is the set of
\* subscribers whose res.write throws (caught and logged, the loop goes on).
broadcastQueue(cs, q, thrown) ==
    IF Cardinality(sseClients) = 0
    THEN writes
    ELSE LET payload == DataEvent(getQueueSnapshot(cs, q)) IN
         [c \in Conns |->
            IF c \in sseClients
            THEN Write(writes[c], payload, c \notin thrown)
            ELSE writes[c]]

(***************************************************************************)
(* Responses.                                                              *)
(***************************************************************************)
Response(status, body) == [status |-> status, body |-> body]
Error(msg) == [error |-> msg]

\* checkAdmin(req, res, next) with ADMIN_KEY set: the handler runs (next())
\* only when the x-admin-key header equals it.
checkAdmin(headerKey) == headerKey = AdminKey

Request(route, input) == [route |-> route, input |-> input]

Init ==
    /\ currentSong = Null
    /\ queue = <<>>
    /\ nextQueueItemId = 1
    /\ sseClients = {}
    /\ writes = [c \in Conns |-> <<>>]
    /\ req = Request("none", Null)
    /\ res = Response(0, Error("none"))
    /\ handled = 0

(***************************************************************************)
(* Handlers.                                                               *)
(***************************************************************************)
\* GET /api/queue
GetQueue ==
    /\ req' = Request("get", Null)
    /\ res' = Response(200, getQueueSnapshot(currentSong, queue))
    /\ UNCHANGED <<store, sseClients, writes>>

\* QueueAdd taking the id before it validates the body.
QueueAddEagerId(key, body, thrown) ==
    /\ checkAdmin(key)
    /\ req' = Request("add", Null)
    /\ IF Falsy(body, "title") \/ Falsy(body, "artist") THEN
            /\ res' = Response(400, Error("title and artist are required"))
            /\ nextQueueItemId <= MaxId
            /\ nextQueueItemId' = nextQueueItemId + 1
            /\ UNCHANGED <<currentSong, queue, sseClients, writes>>
       ELSE
            LET position == IF Len(queue) > 0
                            THEN queue[Len(queue)].position + 1 ELSE 1
                item == [id |-> nextQueueItemId,
                         songId |-> OrNull(body, "songId"),
                         title |-> body.title,
                         artist |-> body.artist,
                         position |-> position]
            IN /\ Len(queue) < MaxQueue
               /\ nextQueueItemId <= MaxId
               /\ nextQueueItemId' = nextQueueItemId + 1
               /\ queue' = Append(queue, item)
               /\ writes' = broadcastQueue(currentSong, queue', thrown)
               /\ res' = Response(201, item)
               /\ UNCHANGED <<currentSong, sseClients>>

\* QueueAdd numbering the item by the length of the queue, not by the counter.
QueueAddIdFromLength(key, body, thrown) ==
    /\ checkAdmin(key)
    /\ req' = Request("add", Null)
    /\ IF Falsy(body, "title") \/ Falsy(body, "artist") THEN
            /\ res' = Response(400, Error("title and artist are required"))
            /\ UNCHANGED <<store, sseClients, writes>>
       ELSE
            LET position == IF Len(queue) > 0
                            THEN queue[Len(queue)].position + 1 ELSE 1
                item == [id |-> Len(queue) + 1,
                         songId |-> OrNull(body, "songId"),
                         title |-> body.title,
                         artist |-> body.artist,
                         position |-> position]
            IN /\ Len(queue) < MaxQueue
               /\ nextQueueItemId <= MaxId
               /\ nextQueueItemId' = nextQueueItemId + 1
               /\ queue' = Append(queue, item)
               /\ writes' = broadcastQueue(currentSong, queue', thrown)
               /\ res' = Response(201, item)
               /\ UNCHANGED <<currentSong, sseClients>>

\* QueueAdd taking the position from the length of the queue, not from the
\* position of its last item.
QueueAddPositionFromLength(key, body, thrown) ==
    /\ checkAdmin(key)
    /\ req' = Request("add", Null)
    /\ IF Falsy(body, "title") \/ Falsy(body, "artist") THEN
            /\ res' = Response(400, Error("title and artist are required"))
            /\ UNCHANGED <<store, sseClients, writes>>
       ELSE
            LET position == Len(queue) + 1
                item == [id |-> nextQueueItemId,
                         songId |-> OrNull(body, "songId"),
                         title |-> body.title,
                         artist |-> body.artist,
                         position |-> position]
            IN /\ Len(queue) < MaxQueue
               /\ nextQueueItemId <= MaxId
               /\ nextQueueItemId' = nextQueueItemId + 1
               /\ queue' = Append(queue, item)
               /\ writes' = broadcastQueue(currentSong, queue', thrown)
               /\ res' = Response(201, item)
               /\ UNCHANGED <<currentSong, sseClients>>

\* POST /api/queue/add
QueueAdd(key, body, thrown) ==
    /\ checkAdmin(key)
    /\ req' = Request("add", Null)
    /\ IF Falsy(body, "title") \/ Falsy(body, "artist") THEN
            /\ res' = Response(400, Error("title and artist are required"))
            /\ UNCHANGED <<store, sseClients, writes>>
       ELSE
            LET position == IF Len(queue) > 0
                            THEN queue[Len(queue)].position + 1 ELSE 1
                item == [id |-> nextQueueItemId,
                         songId |-> OrNull(body, "songId"),
                         title |-> body.title,
                         artist |-> body.artist,
                         position |-> position]
            IN /\ Len(queue) < MaxQueue
               /\ nextQueueItemId <= MaxId
               /\ nextQueueItemId' = nextQueueItemId + 1
               /\ queue' = Append(queue, item)
               /\ writes' = broadcastQueue(currentSong, queue', thrown)
               /\ res' = Response(201, item)
               /\ UNCHANGED <<currentSong, sseClients>>

\* QueueNext clearing the current song when there is nothing to advance to.
QueueNextClearsCurrent(key, thrown) ==
    /\ checkAdmin(key)
    /\ req' = Request("next", Null)
    /\ IF Len(queue) = 0 THEN
            /\ res' = Response(400, Error("Queue is empty"))
            /\ currentSong' = Null
            /\ UNCHANGED <<queue, nextQueueItemId, sseClients, writes>>
       ELSE
            LET nextItem == Head(queue) IN
            /\ currentSong' = Some([songId |-> nextItem.songId,
                                    title |-> nextItem.title,
                                    artist |-> nextItem.artist])
            /\ queue' = Renumber(Tail(queue))
            /\ writes' = broadcastQueue(currentSong', queue', thrown)
            /\ res' = Response(200, [current |-> currentSong'])
            /\ UNCHANGED <<nextQueueItemId, sseClients>>

\* QueueNext taking the last item (pop) where the source takes the first (shift).
QueueNextPop(key, thrown) ==
    /\ checkAdmin(key)
    /\ req' = Request("next", Null)
    /\ IF Len(queue) = 0 THEN
            /\ res' = Response(400, Error("Queue is empty"))
            /\ UNCHANGED <<store, sseClients, writes>>
       ELSE
            LET nextItem == queue[Len(queue)] IN
            /\ currentSong' = Some([songId |-> nextItem.songId,
                                    title |-> nextItem.title,
                                    artist |-> nextItem.artist])
            /\ queue' = Renumber(SubSeq(queue, 1, Len(queue) - 1))
            /\ writes' = broadcastQueue(currentSong', queue', thrown)
            /\ res' = Response(200, [current |-> currentSong'])
            /\ UNCHANGED <<nextQueueItemId, sseClients>>

\* QueueNext without the renumbering of the items left in the queue.
QueueNextKeepsPositions(key, thrown) ==
    /\ checkAdmin(key)
    /\ req' = Request("next", Null)
    /\ IF Len(queue) = 0 THEN
            /\ res' = Response(400, Error("Queue is empty"))
            /\ UNCHANGED <<store, sseClients, writes>>
       ELSE
            LET nextItem == Head(queue) IN
            /\ currentSong' = Some([songId |-> nextItem.songId,
                                    title |-> nextItem.title,
                                    artist |-> nextItem.artist])
            /\ queue' = Tail(queue)
            /\ writes' = broadcastQueue(currentSong', queue', thrown)
            /\ res' = Response(200, [current |-> currentSong'])
            /\ UNCHANGED <<nextQueueItemId, sseClients>>

\* POST /api/queue/next
QueueNext(key, thrown) ==
    /\ checkAdmin(key)
    /\ req' = Request("next", Null)
    /\ IF Len(queue) = 0 THEN
            /\ res' = Response(400, Error("Queue is empty"))
            /\ UNCHANGED <<store, sseClients, writes>>
       ELSE
            LET nextItem == Head(queue) IN
            /\ currentSong' = Some([songId |-> nextItem.songId,
                                    title |-> nextItem.title,
                                    artist |-> nextItem.artist])
            /\ queue' = Renumber(Tail(queue))
            /\ writes' = broadcastQueue(currentSong', queue', thrown)
            /\ res' = Response(200, [current |-> currentSong'])
            /\ UNCHANGED <<nextQueueItemId, sseClients>>

\* QueueCurrent that also takes the head off the queue, as QueueNext does.
QueueCurrentShiftsQueue(key, body, thrown) ==
    /\ checkAdmin(key)
    /\ req' = Request("current", Null)
    /\ IF Falsy(body, "title") \/ Falsy(body, "artist") THEN
            /\ res' = Response(400, Error("title and artist are required"))
            /\ UNCHANGED <<store, sseClients, writes>>
       ELSE
            /\ currentSong' = Some([songId |-> OrNull(body, "songId"),
                                    title |-> body.title,
                                    artist |-> body.artist])
            /\ queue' = IF Len(queue) = 0 THEN queue ELSE Renumber(Tail(queue))
            /\ writes' = broadcastQueue(currentSong', queue', thrown)
            /\ res' = Response(200, [current |-> currentSong'])
            /\ UNCHANGED <<nextQueueItemId, sseClients>>

\* POST /api/queue/current
QueueCurrent(key, body, thrown) ==
    /\ checkAdmin(key)
    /\ req' = Request("current", Null)
    /\ IF Falsy(body, "title") \/ Falsy(body, "artist") THEN
            /\ res' = Response(400, Error("title and artist are required"))
            /\ UNCHANGED <<store, sseClients, writes>>
       ELSE
            /\ currentSong' = Some([songId |-> OrNull(body, "songId"),
                                    title |-> body.title,
                                    artist |-> body.artist])
            /\ writes' = broadcastQueue(currentSong', queue, thrown)
            /\ res' = Response(200, [current |-> currentSong'])
            /\ UNCHANGED <<queue, nextQueueItemId, sseClients>>

\* POST /api/queue/current/clear
QueueCurrentClear(key, thrown) ==
    /\ checkAdmin(key)
    /\ req' = Request("clear", Null)
    /\ currentSong' = Null
    /\ writes' = broadcastQueue(currentSong', queue, thrown)
    /\ res' = Response(200, [current |-> Null])
    /\ UNCHANGED <<queue, nextQueueItemId, sseClients>>

\* QueueDelete without the index === -1 return: splice(-1, 1) removes the
\* last item.
QueueDeleteNoCheck(key, param, thrown) ==
    /\ checkAdmin(key)
    /\ req' = Request("delete", Some(param))
    /\ LET id == Number(param)
           index == FindIndex(queue, id)
           at == IF index = 0 THEN Len(queue) ELSE index
       IN /\ queue' = Renumber(Splice(queue, at))
          /\ writes' = broadcastQueue(currentSong, queue', thrown)
          /\ res' = Response(200, [success |-> TRUE])
          /\ UNCHANGED <<currentSong, nextQueueItemId, sseClients>>

\* QueueDelete with splice(index): everything from the item on is removed.
QueueDeleteSpliceRest(key, param, thrown) ==
    /\ checkAdmin(key)
    /\ req' = Request("delete", Some(param))
    /\ LET id == Number(param)
           index == FindIndex(queue, id)
       IN IF index = 0 THEN
               /\ res' = Response(404, Error("Queue item not found"))
               /\ UNCHANGED <<store, sseClients, writes>>
          ELSE
               /\ queue' = Renumber(SubSeq(queue, 1, index - 1))
               /\ writes' = broadcastQueue(currentSong, queue', thrown)
               /\ res' = Response(200, [success |-> TRUE])
               /\ UNCHANGED <<currentSong, nextQueueItemId, sseClients>>

\* DELETE /api/queue/:id
QueueDelete(key, param, thrown) ==
    /\ checkAdmin(key)
    /\ req' = Request("delete", Some(param))
    /\ LET id == Number(param)
           index == FindIndex(queue, id)
       IN IF index = 0 THEN
               /\ res' = Response(404, Error("Queue item not found"))
               /\ UNCHANGED <<store, sseClients, writes>>
          ELSE
               /\ queue' = Renumber(Splice(queue, index))
               /\ writes' = broadcastQueue(currentSong, queue', thrown)
               /\ res' = Response(200, [success |-> TRUE])
               /\ UNCHANGED <<currentSong, nextQueueItemId, sseClients>>

\* POST /api/queue/reorder
QueueReorder(key, body, thrown) ==
    /\ checkAdmin(key)
    /\ req' = Request("reorder", Null)
    /\ IF ~IsArray(body) THEN
            /\ res' = Response(400, Error("items must be an array"))
            /\ UNCHANGED <<store, sseClients, writes>>
       ELSE
            LET posMap == PosMap(body.items.array) IN
            /\ queue' = SortByPosition(ApplyPositions(queue, posMap))
            /\ writes' = broadcastQueue(currentSong, queue', thrown)
            /\ res' = Response(200, [success |-> TRUE])
            /\ UNCHANGED <<currentSong, nextQueueItemId, sseClients>>

\* QueueStream registering the connection without the initial snapshot.
QueueStreamNoSnapshot(c) ==
    /\ c \notin sseClients
    /\ writes[c] = <<>>
    /\ \A d \in 1..(c - 1) : writes[d] # <<>>
    /\ req' = Request("stream", Some(c))
    /\ res' = Response(200, [stream |-> c])
    /\ writes' = [writes EXCEPT ![c] = Write(@, RetryEvent, TRUE)]
    /\ sseClients' = sseClients \cup {c}
    /\ UNCHANGED store

\* GET /api/queue/stream on a new connection c: the retry hint, the current
\* snapshot, then c joins sseClients.  The two writes are outside any try:
\* they are writes to a response that was opened in this very handler.
QueueStream(c) ==
    /\ c \notin sseClients
    /\ writes[c] = <<>>
    /\ \A d \in 1..(c - 1) : writes[d] # <<>>     \* connections are numbered as they come
    /\ req' = Request("stream", Some(c))
    /\ res' = Response(200, [stream |-> c])
    /\ writes' = [writes EXCEPT ![c] =
            Write(Write(@, RetryEvent, TRUE),
                  DataEvent(getQueueSnapshot(currentSong, queue)), TRUE)]
    /\ sseClients' = sseClients \cup {c}
    /\ UNCHANGED store

\* req.on("close", ...) of connection c: registered by QueueStream, fires once.
StreamClose(c) ==
    /\ c \in sseClients
    /\ sseClients' = sseClients \ {c}
    /\ UNCHANGED <<store, writes, req, res>>

\* checkAdmin answering 401 in front of any of the six admin routes: the
\* route's handler does not run.
AdminRejected(key) ==
    /\ ~checkAdmin(key)
    /\ req' = Request("admin", Null)
    /\ res' = Response(401, Error("Unauthorized"))
    /\ UNCHANGED <<store, sseClients, writes>>

(***************************************************************************)
(* The server with no stream connection: queries and admin commands.       *)
(***************************************************************************)
Next ==
    \/ GetQueue /\ UNCHANGED handled
    \/ \E k \in HeaderKeys : AdminRejected(k) /\ UNCHANGED handled
    \/ \E k \in HeaderKeys, b \in AddBodies :
            QueueAdd(k, b, {}) /\ UNCHANGED handled
    \/ \E k \in HeaderKeys : QueueNext(k, {}) /\ UNCHANGED handled
    \/ \E k \in HeaderKeys, b \in CurrentBodies :
            QueueCurrent(k, b, {}) /\ UNCHANGED handled
    \/ \E k \in HeaderKeys : QueueCurrentClear(k, {}) /\ UNCHANGED handled
    \/ \E k \in HeaderKeys, p \in IdParams :
            QueueDelete(k, p, {}) /\ UNCHANGED handled
    \/ \E k \in HeaderKeys, b \in ReorderBodies :
            QueueReorder(k, b, {}) /\ UNCHANGED handled

Spec == Init /\ [][Next]_vars

(***************************************************************************)
(* The server under Add, Remove and Advance only (accepted or rejected).   *)
(***************************************************************************)
NextNoReorder ==
    \/ \E k \in HeaderKeys : AdminRejected(k) /\ UNCHANGED handled
    \/ \E k \in HeaderKeys, b \in AddBodies :
            QueueAdd(k, b, {}) /\ UNCHANGED handled
    \/ \E k \in HeaderKeys : QueueNext(k, {}) /\ UNCHANGED handled
    \/ \E k \in HeaderKeys, p \in IdParams :
            QueueDelete(k, p, {}) /\ UNCHANGED handled

SpecNoReorder == Init /\ [][NextNoReorder]_vars


(***************************************************************************)
(* The server with stream connections, over runs of at most MaxRequests    *)
(* requests.  Any subset of the subscribers may have a throwing res.write  *)
(* in each broadcast.                                                      *)
(***************************************************************************)
Tick == handled < MaxRequests /\ handled' = handled + 1

\* The inputs of the bounded runs: a part of the inputs above.
SSEAddBodies == { [songId |-> 7, title |-> "A", artist |-> "X"],
                  [songId |-> 7, title |-> "", artist |-> "X"] }
SSECurrentBodies == { [title |-> "B", artist |-> "Y"], [songId |-> 7, title |-> "B"] }
SSEIdParams == { [digits |-> 1], [digits |-> 2], [text |-> "abc"] }
SSEReorderBodies ==
    { [items |-> [array |-> <<[id |-> 1, position |-> 3]>>]],
      [items |-> [array |-> <<[id |-> 2, position |-> 1], [id |-> 1, position |-> 2]>>]],
      [items |-> [text |-> "1,2"]] }

NextSSE ==
    \/ GetQueue /\ Tick
    \/ \E c \in Conns : QueueStream(c) /\ Tick
    \/ \E c \in Conns : StreamClose(c) /\ UNCHANGED handled
    \/ \E k \in HeaderKeys : AdminRejected(k) /\ Tick
    \/ \E k \in HeaderKeys, b \in SSEAddBodies, t \in SUBSET sseClients :
            QueueAdd(k, b, t) /\ Tick
    \/ \E k \in HeaderKeys, t \in SUBSET sseClients : QueueNext(k, t) /\ Tick
    \/ \E k \in HeaderKeys, b \in SSECurrentBodies, t \in SUBSET sseClients :
            QueueCurrent(k, b, t) /\ Tick
    \/ \E k \in HeaderKeys, t \in SUBSET sseClients :
            QueueCurrentClear(k, t) /\ Tick
    \/ \E k \in HeaderKeys, p \in SSEIdParams, t \in SUBSET sseClients :
            QueueDelete(k, p, t) /\ Tick
    \/ \E k \in HeaderKeys, b \in SSEReorderBodies, t \in SUBSET sseClients :
            QueueReorder(k, b, t) /\ Tick

SpecSSE == Init /\ [][NextSSE]_vars

(***************************************************************************)
(* The queue under Add, Remove and Reorder.  Reorder is given single       *)
(* pairs, lists that name an id twice or give two ids one position, and    *)
(* the full renumberings: lists that name the ids 1..n once each, in id    *)
(* order, with a permutation of 1..n as positions.                         *)
(***************************************************************************)
PositionPermutations(n) ==
    { f \in [1..n -> 1..n] : \A i \in 1..n, j \in 1..n : i # j => f[i] # f[j] }

PermutationLists ==
    UNION { { [k \in 1..n |-> [id |-> k, position |-> f[k]]] : f \in PositionPermutations(n) } :
            n \in {1, 2, 3} }

AllReorderLists ==
    { <<p>> : p \in ReorderPairs }
        \cup { << [id |-> 1, position |-> 3], [id |-> 1, position |-> 0] >>,
               << [id |-> 1, position |-> 0], [id |-> 1, position |-> 3] >>,
               << [id |-> 1, position |-> 3], [id |-> 2, position |-> 3] >>,
               << [id |-> 2, position |-> 0], [id |-> 1, position |-> 0] >> }
        \cup PermutationLists

ArrayBody(l) == [items |-> [array |-> l]]

NextReorder ==
    \/ \E k \in HeaderKeys, b \in SSEAddBodies :
            QueueAdd(k, b, {}) /\ UNCHANGED handled
    \/ \E k \in HeaderKeys, p \in IdParams :
            QueueDelete(k, p, {}) /\ UNCHANGED handled
    \/ \E k \in HeaderKeys, l \in AllReorderLists :
            QueueReorder(k, ArrayBody(l), {}) /\ UNCHANGED handled

SpecReorder == Init /\ [][NextReorder]_vars

(***************************************************************************)
(* Properties.                                                             *)
(***************************************************************************)
Succeeded(r) == r.status \in {200, 201}
AdminRoutes == {"add", "next", "current", "clear", "delete", "reorder"}

\* The item at array index i (1-based here) carries position i.
PositionsContiguous == \A i \in 1..Len(queue) : queue[i].position = i

\* Positions never decrease along the array.
PositionsSorted ==
    \A i \in 1..(Len(queue) - 1) : queue[i].position <= queue[i + 1].position

\* C1: under Add, Remove and Advance alone (accepted or rejected, no Reorder),
\* the queue of length N has positions exactly 1..N in array order.
C1_PositionsAfterAddRemoveAdvance == PositionsContiguous

\* A Remove from the middle of the queue has closed the gap.
C1_Witness ==
    /\ req.route = "delete" /\ res.status = 200
    /\ Len(queue) = 2
    /\ queue[1].id = 1 /\ queue[2].id = 3

\* C2 as stated: in every reachable state, Reorder included, positions are
\* exactly 1..N, unique and strictly increasing in array order.
C2_PositionsAlwaysContiguous ==
    /\ PositionsContiguous
    /\ \A i \in 1..(Len(queue) - 1) : queue[i].position < queue[i + 1].position

\* C2 amended: in every reachable state the positions are non-decreasing in
\* array order, and they are exactly 1..N after every successful Advance or
\* Remove; a Reorder may leave gaps, duplicates or a first position other
\* than 1, and a later Add keeps them.
C2_PositionsSorted ==
    /\ PositionsSorted
    /\ (req.route \in {"next", "delete"} /\ Succeeded(res)) => PositionsContiguous

\* A Reorder has left two items with the same position and none with
\* position 1, and an Add after it has kept both.
C2_Witness ==
    /\ req.route = "add" /\ Succeeded(res)
    /\ Len(queue) = 3
    /\ queue[1].position = queue[2].position
    /\ queue[1].position # 1

C4_AdvanceOnEmpty ==
    [][ (handled' # handled /\ req'.route = "next" /\ Len(queue) = 0) =>
            /\ res' = Response(400, Error("Queue is empty"))
            /\ queue' = <<>>
            /\ currentSong' = currentSong
            /\ nextQueueItemId' = nextQueueItemId
            /\ writes' = writes
            /\ sseClients' = sseClients ]_vars

\* An Advance was rejected while a song was current and an observer listened.
C4_Witness ==
    /\ req.route = "next" /\ res.status = 400
    /\ currentSong # Null
    /\ sseClients # {}

\* A snapshot's next mirrors the head of its queue.
NextMirrorsHead(snapshot) ==
    /\ snapshot.queue = <<>> <=> snapshot.next = Null
    /\ snapshot.queue # <<>> => snapshot.next = Some(snapshot.queue[1])

\* The snapshots written to connection c so far.
SnapshotsWritten(c) ==
    { writes[c][i].payload.json : i \in { j \in 1..Len(writes[c]) :
                                            writes[c][j].payload.event = "data" } }

\* C5: in every snapshot produced (answered by GET /api/queue, sent at
\* subscription, or published after a command) next is the first element of
\* queue, and next is absent exactly when queue is empty.
C5_NextMirrorsHead ==
    /\ NextMirrorsHead(getQueueSnapshot(currentSong, queue))
    /\ req.route = "get" => NextMirrorsHead(res.body)
    /\ \A c \in Conns : \A snapshot \in SnapshotsWritten(c) : NextMirrorsHead(snapshot)

\* A connection was sent an empty and then a two-item snapshot, and a query
\* is answered with the two-item queue.
C5_Witness ==
    /\ req.route = "get" /\ Len(res.body.queue) = 2
    /\ \E c \in Conns :
            /\ \E snapshot \in SnapshotsWritten(c) : snapshot.queue = <<>>
            /\ \E snapshot \in SnapshotsWritten(c) : Len(snapshot.queue) = 2

\* A step that handles a request (the close of a connection is no request).
RequestStep == handled' # handled
CommandSucceeds == RequestStep /\ req'.route \in AdminRoutes /\ Succeeded(res')

Last(log) == log[Len(log)]

\* The log entry is a data event whose snapshot holds current cs and queue q.
Carries(entry, cs, q) ==
    /\ entry.payload.event = "data"
    /\ entry.payload.json.current = cs
    /\ entry.payload.json.queue = q

\* The step wrote connection c one more event: the snapshot of the store as
\* the step leaves it.
WrotePostState(c) ==
    /\ Len(writes'[c]) = Len(writes[c]) + 1
    /\ SubSeq(writes'[c], 1, Len(writes[c])) = writes[c]
    /\ Carries(Last(writes'[c]), currentSong', queue')

\* C6: the step that subscribes a connection writes it the retry hint and one
\* snapshot, that of the store at that moment, both before the connection is
\* registered; from then on, while it is registered, every successful command
\* writes it exactly one snapshot after those, and no other step writes to it.
C6_SubscribeSnapshot ==
    [][ \A c \in Conns :
          /\ (c \notin sseClients /\ c \in sseClients') =>
                /\ writes[c] = <<>>
                /\ Len(writes'[c]) = 2
                /\ writes'[c][1] = [payload |-> RetryEvent, ok |-> TRUE]
                /\ writes'[c][2].ok
                /\ Carries(writes'[c][2], currentSong, queue)
                /\ UNCHANGED store
          /\ (c \in sseClients /\ CommandSucceeds) =>
                /\ WrotePostState(c)
                /\ c \in sseClients'
          /\ (c \in sseClients /\ ~CommandSucceeds) => writes'[c] = writes[c] ]_vars

\* Connection 1 subscribed, a command ran, connection 2 subscribed to a
\* different state, another command ran: 1 holds one snapshot more than 2.
C6_Witness ==
    /\ sseClients = {1, 2}
    /\ Len(writes[1]) = 4 /\ Len(writes[2]) = 3
    /\ writes[1][2].payload # writes[2][2].payload
    /\ writes[1][3].payload = writes[2][2].payload
    /\ writes[1][4].payload = writes[2][3].payload

\* C7: every successful command writes exactly one event to every connection
\* registered at that moment, the same for all: the snapshot of the store
\* after the command; it writes to no other connection.
C7_PublishToAll ==
    [][ CommandSucceeds =>
          /\ \A c \in sseClients : WrotePostState(c)
          /\ \A c \in sseClients, d \in sseClients :
                Last(writes'[c]).payload = Last(writes'[d]).payload
          /\ \A c \in Conns \ sseClients : writes'[c] = writes[c]
          /\ sseClients' = sseClients ]_vars

\* A Reorder was published to two connections, and both writes returned.
C7_Witness ==
    /\ sseClients = {1, 2}
    /\ req.route = "reorder" /\ Succeeded(res)
    /\ Len(writes[1]) = 4 /\ Len(writes[2]) = 3
    /\ Last(writes[1]).ok /\ Last(writes[2]).ok
    /\ Last(writes[1]).payload.json.queue = queue
    /\ queue # <<>> /\ queue[1].position # 1

\* The step's write to connection c threw.
WriteThrew(c) ==
    /\ Len(writes'[c]) > Len(writes[c])
    /\ ~Last(writes'[c]).ok

\* The store after the step shows the command of route r as applied.
Applied(r) ==
    /\ r = "add" => /\ queue' = Append(queue, res'.body)
                     /\ nextQueueItemId' = nextQueueItemId + 1
    /\ r = "next" => /\ Len(queue') = Len(queue) - 1
                      /\ currentSong' # Null
                      /\ res'.body = [current |-> currentSong']
    /\ r = "current" => /\ currentSong' # Null
                         /\ res'.body = [current |-> currentSong']
    /\ r = "clear" => currentSong' = Null
    /\ r = "delete" => /\ Len(queue') = Len(queue) - 1
                        /\ \A i \in 1..Len(queue') :
                                req'.input # Some([digits |-> queue'[i].id])
    /\ r = "reorder" => \A i \in 1..(Len(queue') - 1) :
                            queue'[i].position <= queue'[i + 1].position

\* C8: when the write to one connection throws during a publish, every other
\* registered connection is still written that snapshot, the command answers
\* with its success result, and the store holds the command's mutation.
C8_SendFailureIsolated ==
    [][ (RequestStep /\ \E c \in sseClients : WriteThrew(c)) =>
          /\ req'.route \in AdminRoutes
          /\ Succeeded(res')
          /\ \A d \in sseClients : WrotePostState(d)
          /\ Applied(req'.route) ]_vars

\* An Add was published to two connections; the write to the first threw and
\* the write to the second returned.
C8_Witness ==
    /\ sseClients = {1, 2}
    /\ req.route = "add" /\ res.status = 201
    /\ ~Last(writes[1]).ok
    /\ Last(writes[2]).ok
    /\ Carries(Last(writes[2]), currentSong, queue)
    /\ Len(queue) = 1

ValidationErrors ==
    { Error("title and artist are required"), Error("items must be an array") }

\* C9: a command rejected at validation (Add or SetCurrent without a
\* non-empty title and artist, Reorder whose items is no array) changes
\* nothing: queue, current and the id counter are as before and nothing is
\* written to any connection; and these inputs are rejected.
C9_ValidationRejectsWhole ==
    [][ /\ (RequestStep /\ res'.status = 400 /\ res'.body \in ValidationErrors) =>
              /\ req'.route \in {"add", "current", "reorder"}
              /\ UNCHANGED <<currentSong, queue, nextQueueItemId, sseClients, writes>>
        /\ \A t \in SUBSET sseClients :
              /\ \A b \in SSEAddBodies :
                    (QueueAdd(AdminKey, b, t) /\ (Falsy(b, "title") \/ Falsy(b, "artist")))
                        => res'.status = 400
              /\ \A b \in SSECurrentBodies :
                    (QueueCurrent(AdminKey, b, t) /\ (Falsy(b, "title") \/ Falsy(b, "artist")))
                        => res'.status = 400
              /\ \A b \in SSEReorderBodies :
                    (QueueReorder(AdminKey, b, t) /\ "array" \notin DOMAIN b.items)
                        => res'.status = 400 ]_vars

\* An Add was rejected while an item was queued, a song was current and a
\* connection was registered.
C9_Witness ==
    /\ req.route = "add" /\ res.status = 400
    /\ Len(queue) = 1 /\ nextQueueItemId = 2
    /\ currentSong # Null
    /\ sseClients # {}

\* No item of queue q has the id that the path parameter denotes.
NoItemWithId(q, input) == \A i \in 1..Len(q) : input # Some([digits |-> q[i].id])

\* C10: Remove with an id that no queue item carries answers 404 "Queue item
\* not found" and changes nothing: queue, positions, current and the id
\* counter are as before and nothing is written to any connection.
C10_RemoveUnknownId ==
    [][ (RequestStep /\ req'.route = "delete" /\ NoItemWithId(queue, req'.input)) =>
          /\ res' = Response(404, Error("Queue item not found"))
          /\ UNCHANGED <<currentSong, queue, nextQueueItemId, sseClients, writes>> ]_vars

\* The id of the item that Advance made current was asked to be removed,
\* with a connection registered.
C10_Witness ==
    /\ req = Request("delete", Some([digits |-> 1]))
    /\ res.status = 404
    /\ nextQueueItemId = 2
    /\ currentSong # Null
    /\ sseClients # {}

\* Item it with its position set to p, every other field as it was.
WithPosition(it, p) ==
    [id |-> it.id, songId |-> it.songId, title |-> it.title,
     artist |-> it.artist, position |-> p]

\* C11: Remove with an id that a queue item carries removes that item and no
\* other, keeps the other items in their order with id, songId, title and
\* artist unchanged, and renumbers their positions 1..N, whatever the
\* positions were before.
C11_RemoveClosesGap ==
    [][ (req'.route = "delete" /\ ~NoItemWithId(queue, req'.input)) =>
          \E k \in 1..Len(queue) :
            /\ req'.input = Some([digits |-> queue[k].id])
            /\ res' = Response(200, [success |-> TRUE])
            /\ Len(queue') = Len(queue) - 1
            /\ \A i \in 1..Len(queue') :
                    queue'[i] = WithPosition(IF i < k THEN queue[i] ELSE queue[i + 1], i)
            /\ UNCHANGED <<currentSong, nextQueueItemId>> ]_vars

\* Item 3 was removed from a queue that a Reorder had put in the order
\* 2, 1, 3; the two items left are numbered 1 and 2.
C11_Witness ==
    /\ req = Request("delete", Some([digits |-> 3]))
    /\ Succeeded(res)
    /\ Len(queue) = 2
    /\ queue[1].id = 2 /\ queue[2].id = 1
    /\ queue[1].position = 1 /\ queue[2].position = 2

\* The ids in the queue differ pairwise and are all below the id counter.
IdsUniqueBelowCounter ==
    /\ \A i \in 1..Len(queue), j \in 1..Len(queue) :
            i # j => queue[i].id # queue[j].id
    /\ \A i \in 1..Len(queue) : queue[i].id < nextQueueItemId

\* C12: no two queue items share an id; each successful Add gives the item
\* the value of the id counter, which is above every id given before, and the
\* counter never goes down, so an id freed by Remove or Advance is not given
\* again.
C12_IdsUniqueNeverReused ==
    /\ []IdsUniqueBelowCounter
    /\ [][ /\ nextQueueItemId' >= nextQueueItemId
           /\ (req'.route = "add" /\ Succeeded(res')) =>
                 /\ res'.body.id = nextQueueItemId
                 /\ nextQueueItemId' = nextQueueItemId + 1
                 /\ queue'[Len(queue')].id = nextQueueItemId
                 /\ \A i \in 1..Len(queue) : queue[i].id < nextQueueItemId
           /\ ~(req'.route = "add" /\ Succeeded(res')) =>
                 /\ nextQueueItemId' = nextQueueItemId
                 /\ \A i \in 1..Len(queue') :
                       \E j \in 1..Len(queue) : queue'[i].id = queue[j].id ]_vars

\* The third item was added to a queue from which the first two had gone,
\* one by Advance: it has id 3.
C12_Witness ==
    /\ req.route = "add" /\ Succeeded(res)
    /\ Len(queue) = 1
    /\ queue[1].id = 3
    /\ currentSong # Null

\* The largest position in queue q (q not empty).
MaxPosition(q) ==
    CHOOSE p \in { q[i].position : i \in 1..Len(q) } :
        \A i \in 1..Len(q) : q[i].position <= p

NewPosition(it, items) ==
    LET named == { j \in 1..Len(items) : items[j].id = it.id } IN
    IF named = {} THEN it.position
    ELSE items[CHOOSE j \in named : \A k \in named : k <= j].position

\* The index in queue q of the item with this id.
IndexOfId(q, id) == CHOOSE k \in 1..Len(q) : q[k].id = id

C15_FailedObserverDropped ==
    [][ \A c \in sseClients : WriteThrew(c) => c \notin sseClients' ]_vars

\* C16 as stated: after any successful Add, Advance or Remove, in any
\* reachable state, a queue left by a Reorder with gapped or duplicate
\* positions included, the positions are exactly 1..N.
C16_ContiguousAfterAddAdvanceRemove ==
    (req.route \in {"add", "next", "delete"} /\ Succeeded(res)) => PositionsContiguous

\* C16 amended: after any successful Advance or Remove, in any reachable
\* state, the positions are exactly 1..N; a successful Add leaves them
\* exactly 1..N when they were so before it, and otherwise keeps the gaps or
\* duplicates that a Reorder left.
C16_OnlyReorderBreaksContiguity ==
    [][ /\ (req'.route \in {"next", "delete"} /\ Succeeded(res')) => PositionsContiguous'
        /\ (req'.route = "add" /\ Succeeded(res')) =>
                (PositionsContiguous' <=> PositionsContiguous) ]_vars

\* A Reorder had moved the only item to position 3; the Add after it put
\* the new item at position 4, and the queue of two has positions 3 and 4.
C16_Witness ==
    /\ req.route = "add" /\ Succeeded(res)
    /\ Len(queue) = 2
    /\ queue[1].position = 3 /\ queue[2].position = 4
    /\ ~PositionsContiguous

\* C17: SetCurrent and ClearCurrent leave the queue and the id counter as
\* they were; Add, Remove and Reorder leave the current song as it was; a step
\* that changes both the queue and the current song is a successful Advance.
C17_CurrentAndQueueIndependent ==
    [][ /\ req'.route \in {"current", "clear"} => UNCHANGED <<queue, nextQueueItemId>>
        /\ req'.route \in {"add", "delete", "reorder"} => UNCHANGED currentSong
        /\ (queue' # queue /\ currentSong' # currentSong) =>
                (req'.route = "next" /\ Succeeded(res')) ]_vars

\* SetCurrent announced a song while two items were queued: both are still
\* there and the next id is still 3.
C17_Witness ==
    /\ req.route = "current" /\ Succeeded(res)
    /\ currentSong = Some([songId |-> Null, title |-> "B", artist |-> "Y"])
    /\ Len(queue) = 2
    /\ queue[1].id = 1 /\ queue[2].id = 2
    /\ nextQueueItemId = 3

\* The song or item s has a title and an artist, neither of them empty.
Populated(s) ==
    /\ "title" \in DOMAIN s /\ s.title # ""
    /\ "artist" \in DOMAIN s /\ s.artist # ""

\* C18: in every reachable state the current song is absent or has a
\* non-empty title and a non-empty artist, whether SetCurrent or Advance set
\* it; and every item in the queue has a non-empty title and artist.
C18_CurrentAbsentOrPopulated ==
    /\ currentSong # Null => Populated(currentSong[1])
    /\ \A i \in 1..Len(queue) : Populated(queue[i])

\* An Advance made the queued song without songId the current song, with the
\* title and the artist it was added with.
C18_Witness ==
    /\ req.route = "next" /\ Succeeded(res)
    /\ currentSong = Some([songId |-> Null, title |-> "B", artist |-> "Y"])
    /\ queue = <<>>

\* Every write to connection c so far has returned.
AllSent(c) == \A k \in 1..Len(writes[c]) : writes[c][k].ok

\* The payloads written to connection c from the k-th on.
PayloadsFrom(c, k) == [i \in 1..(Len(writes[c]) - k + 1) |-> writes[c][i + k - 1].payload]

\* C19: between requests, the last event written to a registered connection
\* whose writes all returned is the snapshot of the store as it is; two such
\* connections hold the same snapshots, in the same order, from the initial
\* snapshot of the later one on; and a step adds to the log of such a
\* connection exactly when it is a successful command, one event, the
\* snapshot of the store after it, also when the command left the store as
\* it was.
C19_LogFollowsStore ==
    /\ [](\A c \in sseClients : AllSent(c) =>
            /\ Len(writes[c]) >= 2
            /\ writes[c][1].payload = RetryEvent
            /\ Carries(Last(writes[c]), currentSong, queue))
    /\ [](\A c \in sseClients, d \in sseClients :
            (AllSent(c) /\ AllSent(d) /\ Len(writes[c]) >= Len(writes[d])) =>
                PayloadsFrom(c, Len(writes[c]) - Len(writes[d]) + 2) = PayloadsFrom(d, 2))
    /\ [][ \A c \in sseClients :
            (AllSent(c) /\ RequestStep) =>
                IF req'.route \in AdminRoutes /\ Succeeded(res')
                THEN /\ c \in sseClients'
                     /\ Len(writes'[c]) = Len(writes[c]) + 1
                     /\ PayloadsFrom(c, 1) = SubSeq(PayloadsFrom(c, 1)', 1, Len(writes[c]))
                     /\ Carries(Last(writes'[c]), currentSong', queue')
                     /\ UNCHANGED store => Last(writes'[c]).payload = Last(writes[c]).payload
                ELSE writes'[c] = writes[c] /\ UNCHANGED store ]_vars

\* ClearCurrent ran with no current song while connection 1 was registered:
\* the connection was sent the same snapshot a second time.
C19_Witness ==
    /\ sseClients = {1} /\ AllSent(1)
    /\ req.route = "clear" /\ Succeeded(res)
    /\ Len(writes[1]) = 4
    /\ writes[1][3].payload # writes[1][2].payload
    /\ writes[1][4].payload = writes[1][3].payload
    /\ Carries(writes[1][4], currentSong, queue)

\* The list names every item of queue q exactly once and no other id, and
\* its positions are a permutation of 1..N, N the length of q.
FullPermutation(l, q) ==
    /\ Len(l) = Len(q)
    /\ \A i \in 1..Len(q) : \E k \in 1..Len(l) : l[k].id = q[i].id
    /\ \A k \in 1..Len(l), m \in 1..Len(l) : k # m => l[k].id # l[m].id
    /\ \A p \in 1..Len(q) : \E k \in 1..Len(l) : l[k].position = p

\* C20: when the positions are exactly 1..N in array order and the list names
\* every queue item exactly once with a permutation of 1..N, the Reorder
\* leaves the positions exactly 1..N in array order, each item at the array
\* index the list gave it as position.
C20_PermutationKeepsContiguous ==
    [][ \A l \in AllReorderLists :
          (/\ PositionsContiguous
           /\ FullPermutation(l, queue)
           /\ QueueReorder(AdminKey, ArrayBody(l), {})) =>
              /\ Len(queue') = Len(queue)
              /\ PositionsContiguous'
              /\ \A k \in 1..Len(l) : queue'[l[k].position].id = l[k].id ]_vars

\* A Reorder sent item 3 to the front of three items: the queue holds items
\* 3, 1, 2 at positions 1, 2, 3.
C20_Witness ==
    /\ req.route = "reorder" /\ Succeeded(res)
    /\ Len(queue) = 3
    /\ queue[1].id = 3 /\ queue[2].id = 1 /\ queue[3].id = 2
    /\ PositionsContiguous

====
